---- MODULE Spec2Model ----
\* A model of the data service of react-table-implementation
\* (src/src/services/dataService.js): the User record, the seeded generator,
\* and DataService with its sort cache: sortUsers, searchUsers, filterUsers,
\* exportUsers, getUserStats, getUsers and clearCache; and of the UserTable
\* component over it (src/unnamed/part_000): its sort configuration, its
\* search term, its pagination and the timeouts of its handlers.
\*
\* Representation.
\*   - A JavaScript value is a record [t, v]: t is what typeof/== null tells
\*     apart ("null", "number", "string"), v the payload.
\*   - A JavaScript string is the sequence of its character codes, so that
\*     toLowerCase, trim, split, includes and the < of strings are computed.
\*   - Time is counted in hours since 2020-01-01T00:00:00.000Z (the source
\*     counts milliseconds since the epoch; every timestamp of the model is a
\*     whole hour).
EXTENDS Integers, Sequences, FiniteSets, TLC

VARIABLES
    users,      \* this.users: the stored collection
    sortCache,  \* this.sortCache: a Map, as the sequence of its entries in insertion order
    now,        \* the wall clock read by new Date()
    result,     \* the last call: its name, its arguments and what it returned
    insertLog,  \* history: the keys set into sortCache since it was last empty, in order
    sortConfig, \* UserTable: {key, direction}
    visibleRows,\* UserTable: how many rows of sortedUsers are shown
    isLoading,  \* UserTable: a load-more is under way
    isSorting,  \* UserTable: a sort is under way
    searchTerm, \* UserTable: the text of the search input
    timers,     \* the pending timeouts of the handlers, in the order they were set
    lastInput,  \* history: the last of the search and load-more inputs handled
    lastSort    \* history: the last call of handleSort's updater: prevConfig and key

\* the state of the component
tableVars ==
    <<sortConfig, visibleRows, isLoading, isSorting, searchTerm, timers, lastInput, lastSort>>

vars == <<users, sortCache, now, result, insertLog, tableVars>>

----------------------------------------------------------------------------
\* Bounds of the model

\* the size of the generated collection (the source generates 500)
UserCount == 3
\* the longest caller-supplied array passed to sortUsers
MaxSubsetLen == 3
\* how many times the clock advances
MaxTicks == 2
\* the longest search query, in characters
MaxQueryLen == 3
\* how many sort results are inserted into the cache in the cache scenario
MaxInserts == 27
\* the longest caller-supplied array passed to exportUsers
MaxExportLen == 2
\* the size of the largest collection statistics are taken of
StatsUserCount == 14
\* the largest count generateFakeUsers is called with, and the least negated
MaxGenCount == 8
\* the longest array that is sorted by insertion alone
RunLength == 16
\* the size of the collection the table is mounted over
TableUserCount == 60
\* how many sorts of the table can wait for their timeout at once
MaxPendingSorts == 2

\* the hours one step of the clock takes
TickHours == 12
\* the wall clock when the service is constructed (2020-01-03T00:00Z)
StartNow == 48

\* program constants
HoursPerDay == 24
CacheLimit == 20

----------------------------------------------------------------------------
\* Values and strings

Null == [t |-> "null", v |-> 0]
Num(n) == [t |-> "number", v |-> n]
Str(s) == [t |-> "string", v |-> s]

\* character codes
Ch == [tab |-> 9, nl |-> 10, cr |-> 13, sp |-> 32, quote |-> 34, plus |-> 43,
       comma |-> 44, minus |-> 45, dot |-> 46, zero |-> 48, colon |-> 58,
       at |-> 64, A |-> 65, B |-> 66, T |-> 84, Z |-> 90, a |-> 97, b |-> 98]

\* the character codes JSON text needs besides
JsonCh == [lbracket |-> 91, backslash |-> 92, rbracket |-> 93, lbrace |-> 123,
           rbrace |-> 125]

\* the characters String.prototype.trim removes (those the model uses)
WhiteSpace == {Ch.tab, Ch.nl, Ch.cr, Ch.sp}

Range(f) == {f[i] : i \in DOMAIN f}

Min(x, y) == IF x <= y THEN x ELSE y

Abs(x) == IF x < 0 THEN -x ELSE x

\* String.prototype.toLowerCase on the ASCII range
toLowerCase(s) == [i \in DOMAIN s |-> IF s[i] >= 65 /\ s[i] <= 90 THEN s[i] + 32 ELSE s[i]]

\* a < b on two strings: the first differing code unit decides, a proper prefix is less
LessText(a, b) ==
    \E i \in 1..(Min(Len(a), Len(b)) + 1) :
        /\ \A j \in 1..(i - 1) : a[j] = b[j]
        /\ IF i > Len(a) THEN i <= Len(b)
           ELSE i <= Len(b) /\ a[i] < b[i]

\* String.prototype.includes
includes(s, t) ==
    \E i \in 1..(Len(s) - Len(t) + 1) : SubSeq(s, i, i + Len(t) - 1) = t

RECURSIVE trimStart(_)
trimStart(s) ==
    IF s # <<>> /\ Head(s) \in WhiteSpace THEN trimStart(Tail(s)) ELSE s

RECURSIVE trimEnd(_)
trimEnd(s) ==
    IF s # <<>> /\ s[Len(s)] \in WhiteSpace THEN trimEnd(SubSeq(s, 1, Len(s) - 1)) ELSE s

\* String.prototype.trim
trim(s) == trimEnd(trimStart(s))

\* String.prototype.split with a one-character separator: the pieces between
\* the separators, empty pieces included
RECURSIVE split(_, _)
split(s, sep) ==
    IF \A i \in DOMAIN s : s[i] # sep THEN <<s>>
    ELSE LET k == CHOOSE i \in DOMAIN s : s[i] = sep /\ \A j \in 1..(i - 1) : s[j] # sep
         IN  <<SubSeq(s, 1, k - 1)>> \o split(SubSeq(s, k + 1, Len(s)), sep)

\* the decimal digits of a natural number, as Number.prototype.toString writes them
RECURSIVE NumToText(_)
NumToText(n) ==
    IF n < 10 THEN <<Ch.zero + n>> ELSE NumToText(n \div 10) \o <<Ch.zero + (n % 10)>>

TwoDigits(n) == <<Ch.zero + (n \div 10), Ch.zero + (n % 10)>>

\* value.toString() of a non-null value
toString(val) == IF val.t = "number" THEN NumToText(val.v) ELSE val.v

----------------------------------------------------------------------------
\* Dates. Every date string of the model lies in January 2020 and has the
\* form 2020-01-DDTHH:00:00.000 followed by Z or by a zone offset +hh:00 / -hh:00.

DatePrefix == <<50, 48, 50, 48, Ch.minus, 48, 49, Ch.minus>>
DateMinutes == <<Ch.colon, 48, 48, Ch.colon, 48, 48, Ch.dot, 48, 48, 48>>

\* Date.prototype.toISOString of the timestamp h (hours since 2020-01-01T00:00Z)
toISOString(h) ==
    DatePrefix \o TwoDigits((h \div HoursPerDay) + 1) \o <<Ch.T>>
        \o TwoDigits(h % HoursPerDay) \o DateMinutes \o <<Ch.Z>>

\* a date string written with a zone offset: local time h, offset off hours
WithOffset(h, off) ==
    DatePrefix \o TwoDigits((h \div HoursPerDay) + 1) \o <<Ch.T>>
        \o TwoDigits(h % HoursPerDay) \o DateMinutes
        \o <<IF off < 0 THEN Ch.minus ELSE Ch.plus>> \o TwoDigits(Abs(off))
        \o <<Ch.colon, 48, 48>>

TwoDigitValue(s, i) == (s[i] - Ch.zero) * 10 + (s[i + 1] - Ch.zero)

\* new Date(dateString), as the timestamp in hours since 2020-01-01T00:00Z
ParseDate(s) ==
    LET local == (TwoDigitValue(s, 9) - 1) * HoursPerDay + TwoDigitValue(s, 12)
        zone  == IF s[24] = Ch.Z THEN 0
                 ELSE IF s[24] = Ch.minus THEN -TwoDigitValue(s, 25)
                 ELSE TwoDigitValue(s, 25)
    IN  local - zone

----------------------------------------------------------------------------
\* The User record

User(id, firstName, lastName, email, city, registeredDate) ==
    [id |-> Num(id), firstName |-> firstName, lastName |-> lastName,
     email |-> email, city |-> city, registeredDate |-> registeredDate]

\* how a template literal writes a value
TemplateText(val) ==
    IF val.t = "null" THEN <<110, 117, 108, 108>> ELSE toString(val)

\* get fullName
fullName(user) ==
    Str(TemplateText(user.firstName) \o <<Ch.sp>> \o TemplateText(user.lastName))

\* get daysSinceRegistered, read when the clock shows t
daysSinceRegistered(user, t) ==
    Num(Abs(t - ParseDate(user.registeredDate.v)) \div HoursPerDay)

\* the own properties and getters user[field] can read
StoredFields == {"id", "firstName", "lastName", "email", "city", "registeredDate"}

\* DataService.getSortValue. Of the names the model passes, those outside
\* StoredFields and the two getters are no property of a User: user[field]
\* is undefined.
getSortValue(user, field, t) ==
    CASE field = "fullName" -> fullName(user)
      [] field = "daysSinceRegistered" -> daysSinceRegistered(user, t)
      [] field \in StoredFields -> user[field]
      [] OTHER -> Null

----------------------------------------------------------------------------
\* The generator. faker is seeded, so the i-th record draws the i-th values
\* of a fixed stream; the tables below stand for that stream.

FakerFirstName == << <<Ch.A, Ch.b>>, <<Ch.a, Ch.b>>, <<Ch.B, Ch.a>>, <<Ch.b, Ch.b>> >>
FakerLastName == << <<Ch.B, Ch.a>>, <<Ch.A>>, <<Ch.a, Ch.b>>, <<Ch.B>> >>
FakerEmail == << <<Ch.a, Ch.at, Ch.b>>, <<Ch.A, Ch.at, Ch.b>>, <<Ch.b, Ch.at, Ch.a>>,
                 <<Ch.a, Ch.b, Ch.at, Ch.a>> >>
FakerCity == << <<Ch.B, Ch.a>>, <<Ch.b, Ch.a>>, <<Ch.A, Ch.a>>, <<Ch.B, Ch.b>>,
               <<Ch.A, Ch.b>>, <<Ch.a, Ch.B>>, <<Ch.b, Ch.b>>, <<Ch.a, Ch.a>>,
               <<Ch.A, Ch.A>>, <<Ch.B, Ch.B>>, <<Ch.b, Ch.A>>, <<Ch.A, Ch.B>>,
               <<Ch.A, Ch.B>>, <<Ch.b, Ch.A>>, <<Ch.B, Ch.B>>, <<Ch.A, Ch.B>> >>
\* the i-th draw of faker.date.between, in quarters of the window [from, to]
FakerQuarter == <<0, 1, 3, 2>>

Draw(table, i) == table[((i - 1) % Len(table)) + 1]

\* faker.date.between({from: 2020-01-01, to: new Date()}).toISOString()
FakerDateBetween(i, t) == toISOString((Draw(FakerQuarter, i) * t) \div 4)

\* a generator that numbers the records from 0
generateFakeUsersFromZero(count, t) ==
    [i \in 1..count |->
        User(i - 1, Str(Draw(FakerFirstName, i)), Str(Draw(FakerLastName, i)),
             Str(Draw(FakerEmail, i)), Str(Draw(FakerCity, i)),
             Str(FakerDateBetween(i, t)))]

\* the loop runs for i = 1, ..., count, and not at all for a count below 1;
\* t is the clock at the call
generateFakeUsers(count, t) ==
    [i \in 1..count |->
        User(i, Str(Draw(FakerFirstName, i)), Str(Draw(FakerLastName, i)),
             Str(Draw(FakerEmail, i)), Str(Draw(FakerCity, i)),
             Str(FakerDateBetween(i, t)))]

\* DataService.loadUsers
loadUsers(t) == generateFakeUsers(UserCount, t)

----------------------------------------------------------------------------
\* a truthiness under which an empty array counts as no array
TruthyUnlessEmpty(val) ==
    CASE val.t = "null" -> FALSE
      [] val.t = "number" -> val.v # 0
      [] val.t = "string" -> val.v # <<>>
      [] OTHER -> val.v # <<>>

\* JavaScript truthiness: null, undefined, 0 and "" are falsy, an array is
\* truthy whatever its length
Truthy(val) ==
    CASE val.t = "null" -> FALSE
      [] val.t = "number" -> val.v # 0
      [] val.t = "string" -> val.v # <<>>
      [] OTHER -> TRUE

\* an array argument
Arr(s) == [t |-> "object", v |-> s]

----------------------------------------------------------------------------
\* Map: the sequence of its entries [key, value] in insertion order

MapHas(m, k) == \E i \in DOMAIN m : m[i].key = k

MapGet(m, k) == m[CHOOSE i \in DOMAIN m : m[i].key = k].value

\* set keeps the position of a key already present and appends a new one
MapSet(m, k, val) ==
    IF MapHas(m, k)
    THEN [i \in DOMAIN m |-> IF m[i].key = k THEN [key |-> k, value |-> val] ELSE m[i]]
    ELSE Append(m, [key |-> k, value |-> val])

MapKeys(m) == [i \in DOMAIN m |-> m[i].key]

\* delete(keys().next().value): the entry inserted first goes
MapDeleteFirst(m) == Tail(m)

----------------------------------------------------------------------------
\* What a call leaves in result: its name, its arguments, whether the sort
\* cache answered it, the clock at the call, and the value it returned (or
\* that it threw, and the message of the Error)
Returned(op, args, hit, value) ==
    [op |-> op, args |-> args, hit |-> hit, at |-> now, threw |-> FALSE, value |-> value,
     error |-> ""]

Threw(op, args, error) ==
    [op |-> op, args |-> args, hit |-> FALSE, at |-> now, threw |-> TRUE, value |-> Null,
     error |-> error]

----------------------------------------------------------------------------
\* DataService.sortUsers

\* a comparator that puts null behind everything in both directions
compareNullsLast(a, b, field, direction, t) ==
    LET aVal == getSortValue(a, field, t)
        bVal == getSortValue(b, field, t)
        aLow == IF aVal.t = "string" /\ bVal.t = "string" THEN toLowerCase(aVal.v) ELSE aVal.v
        bLow == IF aVal.t = "string" /\ bVal.t = "string" THEN toLowerCase(bVal.v) ELSE bVal.v
    IN  CASE aVal.t = "null" /\ bVal.t = "null" -> 0
          [] aVal.t = "null" /\ bVal.t # "null" -> 1
          [] aVal.t # "null" /\ bVal.t = "null" -> -1
          [] aVal.t = "number" /\ bVal.t = "number" ->
                IF direction = "asc" THEN aVal.v - bVal.v ELSE bVal.v - aVal.v
          [] aVal.t = "string" /\ bVal.t = "string" /\ field = "registeredDate" ->
                IF direction = "asc" THEN ParseDate(aVal.v) - ParseDate(bVal.v)
                ELSE ParseDate(bVal.v) - ParseDate(aVal.v)
          [] aVal.t = "string" /\ bVal.t = "string" /\ field # "registeredDate" ->
                IF direction = "asc"
                THEN (IF LessText(bLow, aLow) THEN 1 ELSE IF LessText(aLow, bLow) THEN -1 ELSE 0)
                ELSE (IF LessText(aLow, bLow) THEN 1 ELSE IF LessText(bLow, aLow) THEN -1 ELSE 0)
          [] OTHER -> 0

\* a comparator that compares text as written, upper case before lower case
compareCaseSensitive(a, b, field, direction, t) ==
    LET aVal == getSortValue(a, field, t)
        bVal == getSortValue(b, field, t)
    IN  CASE aVal.t = "null" /\ bVal.t = "null" -> 0
          [] aVal.t = "null" /\ bVal.t # "null" -> IF direction = "asc" THEN 1 ELSE -1
          [] aVal.t # "null" /\ bVal.t = "null" -> IF direction = "asc" THEN -1 ELSE 1
          [] aVal.t = "number" /\ bVal.t = "number" ->
                IF direction = "asc" THEN aVal.v - bVal.v ELSE bVal.v - aVal.v
          [] aVal.t = "string" /\ bVal.t = "string" /\ field = "registeredDate" ->
                IF direction = "asc" THEN ParseDate(aVal.v) - ParseDate(bVal.v)
                ELSE ParseDate(bVal.v) - ParseDate(aVal.v)
          [] aVal.t = "string" /\ bVal.t = "string" /\ field # "registeredDate" ->
                IF direction = "asc"
                THEN (IF LessText(bVal.v, aVal.v) THEN 1
                      ELSE IF LessText(aVal.v, bVal.v) THEN -1 ELSE 0)
                ELSE (IF LessText(aVal.v, bVal.v) THEN 1
                      ELSE IF LessText(bVal.v, aVal.v) THEN -1 ELSE 0)
          [] OTHER -> 0

\* the comparator passed to sort: negative, zero or positive
compare(a, b, field, direction, t) ==
    LET aVal == getSortValue(a, field, t)
        bVal == getSortValue(b, field, t)
        aLow == IF aVal.t = "string" /\ bVal.t = "string" THEN toLowerCase(aVal.v) ELSE aVal.v
        bLow == IF aVal.t = "string" /\ bVal.t = "string" THEN toLowerCase(bVal.v) ELSE bVal.v
    IN  CASE aVal.t = "null" /\ bVal.t = "null" -> 0
          [] aVal.t = "null" /\ bVal.t # "null" -> IF direction = "asc" THEN 1 ELSE -1
          [] aVal.t # "null" /\ bVal.t = "null" -> IF direction = "asc" THEN -1 ELSE 1
          [] aVal.t = "number" /\ bVal.t = "number" ->
                IF direction = "asc" THEN aVal.v - bVal.v ELSE bVal.v - aVal.v
          [] aVal.t = "string" /\ bVal.t = "string" /\ field = "registeredDate" ->
                IF direction = "asc" THEN ParseDate(aVal.v) - ParseDate(bVal.v)
                ELSE ParseDate(bVal.v) - ParseDate(aVal.v)
          [] aVal.t = "string" /\ bVal.t = "string" /\ field # "registeredDate" ->
                IF direction = "asc"
                THEN (IF LessText(bLow, aLow) THEN 1 ELSE IF LessText(aLow, bLow) THEN -1 ELSE 0)
                ELSE (IF LessText(aLow, bLow) THEN 1 ELSE IF LessText(bLow, aLow) THEN -1 ELSE 0)
          \* a number against a string: > and < compare numbers, and no string
          \* of the model is one, so both tests are false
          [] OTHER -> 0

\* where the stable sort puts x into the already sorted s: behind the last
\* element that does not compare greater than x
InsertPos(s, x, field, direction, t) ==
    IF \A j \in DOMAIN s : compare(s[j], x, field, direction, t) > 0 THEN 0
    ELSE CHOOSE j \in DOMAIN s :
            /\ compare(s[j], x, field, direction, t) <= 0
            /\ \A k \in (j + 1)..Len(s) : compare(s[k], x, field, direction, t) > 0

\* Array.prototype.sort with the comparator: stable (ECMAScript 2019)
RECURSIVE sort(_, _, _, _)
sort(arr, field, direction, t) ==
    IF arr = <<>> THEN <<>>
    ELSE LET front == sort(SubSeq(arr, 1, Len(arr) - 1), field, direction, t)
             x     == arr[Len(arr)]
             p     == InsertPos(front, x, field, direction, t)
         IN  SubSeq(front, 1, p) \o <<x>> \o SubSeq(front, p + 1, Len(front))

\* two sorted arrays into one sorted array, equal elements in the order left
\* before right: an element of left goes behind the elements of right that
\* compare less than it, an element of right behind those of left that do not
\* compare greater
merge(left, right, field, direction, t) ==
    LET atLeft  == <<>> \o [i \in DOMAIN left |->
                      i + Cardinality({ j \in DOMAIN right :
                                compare(right[j], left[i], field, direction, t) < 0 })]
        atRight == <<>> \o [j \in DOMAIN right |->
                      j + Cardinality({ i \in DOMAIN left :
                                compare(left[i], right[j], field, direction, t) <= 0 })]
    IN  <<>> \o [k \in 1..(Len(left) + Len(right)) |->
                    IF \E i \in DOMAIN left : atLeft[i] = k
                    THEN left[CHOOSE i \in DOMAIN left : atLeft[i] = k]
                    ELSE right[CHOOSE j \in DOMAIN right : atRight[j] = k]]

\* the same stable sort for the arrays of the table, which are longer: an
\* array of more than RunLength elements is sorted in two halves that are
\* merged
RECURSIVE sortLong(_, _, _, _)
sortLong(arr, field, direction, t) ==
    IF Len(arr) > RunLength
    THEN LET mid == Len(arr) \div 2
         IN  merge(sortLong(SubSeq(arr, 1, mid), field, direction, t),
                   sortLong(SubSeq(arr, mid + 1, Len(arr)), field, direction, t),
                   field, direction, t)
    ELSE sort(arr, field, direction, t)

\* a sort in place: the array that was passed takes the sorted order
AfterSortInPlace(arr, sorted) == sorted

\* [...users].sort(...) sorts a copy: the array that was passed keeps its order
AfterSortOf(arr, sorted) == arr

\* the template literal `${field}-${direction}-${users.length}`
CacheKey(field, direction, len) == field \o "-" \o direction \o "-" \o ToString(len)

\* the cache after a result was set: one entry over the limit drops the oldest
CacheAfterSet(m, k, val) ==
    LET set == MapSet(m, k, val)
    IN  IF Len(set) > CacheLimit THEN MapDeleteFirst(set) ELSE set

\* a cache that moves the entry it hands out to the newest place
CacheAfterHitRefreshed(m, k) ==
    SelectSeq(m, LAMBDA e : e.key # k) \o <<[key |-> k, value |-> MapGet(m, k)]>>

\* the cache when a call finds its key: the hit only reads
CacheAfterHit(m, k) == m

sortUsers(field, direction, usersToSort) ==
    LET arr      == IF Truthy(usersToSort) THEN usersToSort.v ELSE users
        cacheKey == CacheKey(field, direction, Len(arr))
        hit      == ~Truthy(usersToSort) /\ MapHas(sortCache, cacheKey)
        sorted   == sort(arr, field, direction, now)
        stored   == IF Truthy(usersToSort) THEN users ELSE AfterSortOf(arr, sorted)
    IN  /\ users' = IF hit THEN users ELSE stored
        /\ sortCache' =
              IF hit THEN CacheAfterHit(sortCache, cacheKey)
              ELSE IF ~Truthy(usersToSort) THEN CacheAfterSet(sortCache, cacheKey, sorted)
              ELSE sortCache
        /\ insertLog' =
              IF hit \/ Truthy(usersToSort) THEN insertLog
              ELSE Append(insertLog, cacheKey)
        /\ result' = Returned("sortUsers",
                               [field |-> field, direction |-> direction,
                                usersToSort |-> usersToSort],
                               hit, IF hit THEN MapGet(sortCache, cacheKey) ELSE sorted)
        /\ UNCHANGED <<now, tableVars>>

\* DataService.clearCache
clearCache ==
    /\ sortCache' = <<>>
    /\ insertLog' = <<>>
    /\ result' = Returned("clearCache", <<>>, FALSE, Null)
    /\ UNCHANGED <<users, now, tableVars>>

\* DataService.getUsers
getUsers ==
    /\ result' = Returned("getUsers", <<>>, FALSE, users)
    /\ UNCHANGED <<users, sortCache, now, insertLog, tableVars>>

----------------------------------------------------------------------------
\* DataService.filterUsers: the callback is the set of ids it accepts
filterUsers(filterFn) ==
    /\ result' = Returned("filterUsers", [filterFn |-> filterFn], FALSE,
                          SelectSeq(users, LAMBDA u : u.id.v \in filterFn))
    /\ UNCHANGED <<users, sortCache, now, insertLog, tableVars>>

----------------------------------------------------------------------------
\* DataService.searchUsers

DefaultSearchFields == {"firstName", "lastName", "email", "city", "fullName"}

\* query.toLowerCase().trim().split(' ').filter(term => term.length > 0)
SearchTerms(query) ==
    SelectSeq(split(trim(toLowerCase(query)), Ch.sp), LAMBDA term : Len(term) > 0)

\* value && value.toString().toLowerCase().includes(searchTerm)
FieldMatches(user, field, term, t) ==
    LET value == getSortValue(user, field, t)
    IN  Truthy(value) /\ includes(toLowerCase(toString(value)), term)

\* every term is found in some field
UserMatches(user, searchTerms, fields, t) ==
    \A k \in DOMAIN searchTerms :
        \E field \in fields : FieldMatches(user, field, searchTerms[k], t)

\* if (!query || query.trim() === '') return this.users
IsBlankQuery(query) == ~Truthy(query) \/ trim(query.v) = <<>>

\* an early return that hands back no record for a blank query
BlankQueryNoResult(us) == <<>>

\* what the early return of a blank query hands back
BlankQueryResult(us) == us

\* the early return, or the filter over the terms
SearchOutcome(query, fields, us, t) ==
    IF IsBlankQuery(query) THEN [threw |-> FALSE, error |-> "", value |-> BlankQueryResult(us)]
    ELSE [threw |-> FALSE, error |-> "",
          value |-> SelectSeq(us, LAMBDA u : UserMatches(u, SearchTerms(query.v), fields, t))]

searchUsers(query, fields) ==
    LET out  == SearchOutcome(query, fields, users, now)
        args == [query |-> query, fields |-> fields]
    IN  /\ result' = IF out.threw THEN Threw("searchUsers", args, out.error)
                     ELSE Returned("searchUsers", args, FALSE, out.value)
        /\ UNCHANGED <<users, sortCache, now, insertLog, tableVars>>

----------------------------------------------------------------------------
\* formatDate and User.toPlainObject

\* the four digits of the year a date string starts with
YearOf(s) == ((s[1] - Ch.zero) * 10 + (s[2] - Ch.zero)) * 100 + TwoDigitValue(s, 3)

\* the offsets of the host's local time from UTC, in hours
HostZones == {-5, 0}

\* get registrationYear: getFullYear reads the date in the host's local time,
\* and a local time before 2020-01-01T00:00 lies in the year before
registrationYear(user, zone) ==
    IF ParseDate(user.registeredDate.v) + zone < 0
    THEN YearOf(user.registeredDate.v) - 1
    ELSE YearOf(user.registeredDate.v)

\* formatDate: toLocaleDateString('en-US', {year: 'numeric', month: 'short',
\* day: 'numeric'}), for a date of January 2020 read in UTC: "Jan D, 2020"
formatDate(dateString) ==
    LET h == ParseDate(dateString)
    IN  <<74, 97, 110, 32>> \o NumToText((h \div HoursPerDay) + 1) \o <<Ch.comma, Ch.sp>>
            \o NumToText(YearOf(dateString))

\* the keys of a plain object, in the order toPlainObject writes them
PlainKeys == <<"id", "firstName", "lastName", "fullName", "email", "city",
               "registeredDate", "daysSinceRegistered">>

\* the text of each key
KeyText == [id |-> <<105, 100>>, firstName |-> <<102, 105, 114, 115, 116, 78, 97, 109, 101>>,
            lastName |-> <<108, 97, 115, 116, 78, 97, 109, 101>>,
            fullName |-> <<102, 117, 108, 108, 78, 97, 109, 101>>,
            email |-> <<101, 109, 97, 105, 108>>, city |-> <<99, 105, 116, 121>>,
            registeredDate |-> <<114, 101, 103, 105, 115, 116, 101, 114, 101, 100, 68, 97, 116, 101>>,
            daysSinceRegistered |-> <<100, 97, 121, 115, 83, 105, 110, 99, 101, 82, 101, 103, 105, 115, 116, 101, 114, 101, 100>>]

\* the text of the keys of the exported document
DocKeyText == [exportDate |-> <<101, 120, 112, 111, 114, 116, 68, 97, 116, 101>>,
               totalRecords |-> <<116, 111, 116, 97, 108, 82, 101, 99, 111, 114, 100, 115>>,
               data |-> <<100, 97, 116, 97>>]

toPlainObject(user, t) ==
    [id |-> user.id, firstName |-> user.firstName, lastName |-> user.lastName,
     fullName |-> fullName(user), email |-> user.email, city |-> user.city,
     registeredDate |-> Str(formatDate(user.registeredDate.v)),
     daysSinceRegistered |-> daysSinceRegistered(user, t)]

----------------------------------------------------------------------------
\* DataService.exportUsers

\* Array.prototype.join
RECURSIVE join(_, _)
join(parts, sep) ==
    IF parts = <<>> THEN <<>>
    ELSE IF Len(parts) = 1 THEN parts[1]
    ELSE parts[1] \o sep \o join(Tail(parts), sep)

\* value.replace(/"/g, '""')
RECURSIVE DoubleQuotes(_)
DoubleQuotes(s) ==
    IF s = <<>> THEN <<>>
    ELSE (IF Head(s) = Ch.quote THEN <<Ch.quote, Ch.quote>> ELSE <<Head(s)>>)
            \o DoubleQuotes(Tail(s))

\* a cell that is put between quotes with its own quotes left single
CsvCellQuotesNotDoubled(val) ==
    LET value == IF Truthy(val) THEN val ELSE Str(<<>>)
    IN  IF value.t = "string" /\ \E i \in DOMAIN value.v : value.v[i] \in {Ch.comma, Ch.quote, Ch.nl}
        THEN <<Ch.quote>> \o value.v \o <<Ch.quote>>
        ELSE toString(value)

\* one cell of a data row: row[header] || '', quoted when it is a string
\* holding a comma, a quote or a newline
CsvCell(val) ==
    LET value == IF Truthy(val) THEN val ELSE Str(<<>>)
    IN  IF value.t = "string" /\ \E i \in DOMAIN value.v : value.v[i] \in {Ch.comma, Ch.quote, Ch.nl}
        THEN <<Ch.quote>> \o DoubleQuotes(value.v) \o <<Ch.quote>>
        ELSE toString(value)

CsvRow(row) == join([i \in DOMAIN PlainKeys |-> CsvCell(row[PlainKeys[i]])], <<Ch.comma>>)

NoDataText == <<78, 111, 32, 100, 97, 116, 97, 32, 116, 111, 32, 101, 120, 112, 111, 114, 116>>

CsvText(userData) ==
    IF userData = <<>> THEN NoDataText
    ELSE join(<<join([i \in DOMAIN PlainKeys |-> KeyText[PlainKeys[i]]], <<Ch.comma>>)>>
                \o [i \in DOMAIN userData |-> CsvRow(userData[i])], <<Ch.nl>>)

\* the object handed to JSON.stringify
JsonDocument(userData, t) ==
    [exportDate |-> toISOString(t), totalRecords |-> Len(userData), data |-> userData]

\* n spaces of indentation
Indent(n) == [i \in 1..n |-> Ch.sp]

\* a writer that escapes nothing
JsonEscapeNothing(c) == <<c>>

\* how JSON.stringify writes one character of a string
JsonEscape(c) ==
    CASE c = Ch.quote -> <<JsonCh.backslash, Ch.quote>>
      [] c = JsonCh.backslash -> <<JsonCh.backslash, JsonCh.backslash>>
      [] c = Ch.nl -> <<JsonCh.backslash, 110>>
      [] c = Ch.cr -> <<JsonCh.backslash, 114>>
      [] c = Ch.tab -> <<JsonCh.backslash, 116>>
      [] OTHER -> <<c>>

\* a string as JSON.stringify writes it: quoted, its characters escaped
JsonQuote(s) ==
    <<Ch.quote>> \o join([i \in DOMAIN s |-> JsonEscape(s[i])], <<>>) \o <<Ch.quote>>

\* a null, a number or a string as JSON.stringify writes it
JsonScalar(val) ==
    CASE val.t = "null" -> <<110, 117, 108, 108>>
      [] val.t = "number" -> NumToText(val.v)
      [] OTHER -> JsonQuote(val.v)

\* "key": value
JsonMember(key, text) == JsonQuote(key) \o <<Ch.colon, Ch.sp>> \o text

\* an object of the given members, written at indentation ind
JsonObject(members, ind) ==
    <<JsonCh.lbrace, Ch.nl>>
        \o join([i \in DOMAIN members |-> Indent(ind + 2) \o members[i]], <<Ch.comma, Ch.nl>>)
        \o <<Ch.nl>> \o Indent(ind) \o <<JsonCh.rbrace>>

\* an array of the given elements, written at indentation ind; an empty one is []
JsonArray(elements, ind) ==
    IF elements = <<>> THEN <<JsonCh.lbracket, JsonCh.rbracket>>
    ELSE <<JsonCh.lbracket, Ch.nl>>
            \o join([i \in DOMAIN elements |-> Indent(ind + 2) \o elements[i]],
                    <<Ch.comma, Ch.nl>>)
            \o <<Ch.nl>> \o Indent(ind) \o <<JsonCh.rbracket>>

\* a plain object, its keys in the order toPlainObject wrote them
JsonRecord(row, ind) ==
    JsonObject([i \in DOMAIN PlainKeys |->
                   JsonMember(KeyText[PlainKeys[i]], JsonScalar(row[PlainKeys[i]]))], ind)

\* JSON.stringify(doc, null, 2)
stringify(doc) ==
    JsonObject(<<JsonMember(DocKeyText.exportDate, JsonQuote(doc.exportDate)),
                 JsonMember(DocKeyText.totalRecords, NumToText(doc.totalRecords)),
                 JsonMember(DocKeyText.data,
                            JsonArray([i \in DOMAIN doc.data |-> JsonRecord(doc.data[i], 4)], 2))>>,
               0)

\* an export that writes JSON for every format it does not know
ExportOutcomeJsonByDefault(format, userData, t) ==
    IF format = "csv" THEN [threw |-> FALSE, value |-> CsvText(userData)]
    ELSE [threw |-> FALSE, value |-> stringify(JsonDocument(userData, t))]

\* the text exportUsers returns for the plain objects, or that it throws
ExportOutcome(format, userData, t) ==
    CASE format = "csv" -> [threw |-> FALSE, value |-> CsvText(userData)]
      [] format = "json" -> [threw |-> FALSE, value |-> stringify(JsonDocument(userData, t))]
      \* throw new Error(`Unsupported export format: ${format}`)
      [] OTHER -> [threw |-> TRUE, value |-> Null,
                   error |-> "Unsupported export format: " \o format]

exportUsers(format, usersToExport) ==
    LET arr      == IF Truthy(usersToExport) THEN usersToExport.v ELSE users
        userData == [i \in DOMAIN arr |-> toPlainObject(arr[i], now)]
        args     == [format |-> format, usersToExport |-> usersToExport]
        out      == ExportOutcome(format, userData, now)
    IN  /\ result' = IF out.threw THEN Threw("exportUsers", args, out.error)
                     ELSE Returned("exportUsers", args, FALSE, out.value)
        /\ UNCHANGED <<users, sortCache, now, insertLog, tableVars>>

----------------------------------------------------------------------------
\* DataService.getUserStats

RECURSIVE Sum(_)
Sum(s) == IF s = <<>> THEN 0 ELSE Head(s) + Sum(Tail(s))

\* Math.round of num / den, den > 0, num >= 0
RoundDiv(num, den) == (2 * num + den) \div (2 * den)

\* the keys an object got, in the order they were first assigned
RECURSIVE FirstSeen(_)
FirstSeen(s) ==
    IF s = <<>> THEN <<>>
    ELSE LET front == FirstSeen(SubSeq(s, 1, Len(s) - 1))
         IN  IF s[Len(s)] \in Range(front) THEN front ELSE Append(front, s[Len(s)])

Count(s, x) == Cardinality({i \in DOMAIN s : s[i] = x})

\* the entries [key, count] of a counting object
Tally(s) == [i \in DOMAIN FirstSeen(s) |->
                [key |-> FirstSeen(s)[i], count |-> Count(s, FirstSeen(s)[i])]]

\* a sort by descending count that puts an entry before those of equal count
RECURSIVE SortByCountTiesReversed(_)
SortByCountTiesReversed(entries) ==
    IF entries = <<>> THEN <<>>
    ELSE LET front == SortByCountTiesReversed(SubSeq(entries, 1, Len(entries) - 1))
             x     == entries[Len(entries)]
             p     == Cardinality({j \in DOMAIN front : front[j].count > x.count})
         IN  SubSeq(front, 1, p) \o <<x>> \o SubSeq(front, p + 1, Len(front))

\* sort(([,a], [,b]) => b - a): by descending count, stable
RECURSIVE SortByCount(_)
SortByCount(entries) ==
    IF entries = <<>> THEN <<>>
    ELSE LET front == SortByCount(SubSeq(entries, 1, Len(entries) - 1))
             x     == entries[Len(entries)]
             p     == Cardinality({j \in DOMAIN front : front[j].count >= x.count})
         IN  SubSeq(front, 1, p) \o <<x>> \o SubSeq(front, p + 1, Len(front))

TopCityCount == 10

\* getUserStats, where zone is the host's time zone the years are read in
StatsOf(us, t, zone) ==
    LET totalUsers == Len(us)
        days       == [i \in DOMAIN us |-> daysSinceRegistered(us[i], t).v]
        years      == [i \in DOMAIN us |-> registrationYear(us[i], zone)]
        cities     == [i \in DOMAIN us |-> us[i].city]
        ranked     == SortByCount(Tally(cities))
    IN  [totalUsers |-> totalUsers,
         \* 0 / 0 is NaN, and Math.round keeps it
         avgDaysSinceRegistered |->
             IF totalUsers = 0 THEN "NaN" ELSE RoundDiv(Sum(days), totalUsers),
         registrationYears |-> [y \in Range(years) |-> Count(years, y)],
         \* the entries of the topCities object, in the order they were assigned
         topCities |-> SubSeq(ranked, 1, Min(TopCityCount, Len(ranked)))]

getUserStats ==
    \E zone \in HostZones :
        /\ result' = Returned("getUserStats", [zone |-> zone], FALSE, StatsOf(users, now, zone))
        /\ UNCHANGED <<users, sortCache, now, insertLog, tableVars>>

----------------------------------------------------------------------------
\* UserTable: the state a mounted component starts in

\* the rows shown at first, after a search change, and added by a load-more
PageSize == 50

\* the useState calls of UserTable; no timeout is pending
useState ==
    /\ sortConfig = [key |-> "id", direction |-> "asc"]
    /\ visibleRows = PageSize
    /\ isLoading = FALSE
    /\ isSorting = FALSE
    /\ searchTerm = <<>>
    /\ timers = <<>>
    /\ lastInput = "none"
    /\ lastSort = [prevConfig |-> [key |-> "", direction |-> ""], key |-> ""]

----------------------------------------------------------------------------
\* the wall clock advances
Tick ==
    /\ now < StartNow + MaxTicks * TickHours
    /\ now' = now + TickHours
    /\ UNCHANGED <<users, sortCache, result, insertLog, tableVars>>

\* new DataService()
Init ==
    /\ now = StartNow
    /\ users = loadUsers(StartNow)
    /\ sortCache = <<>>
    /\ insertLog = <<>>
    /\ result = [op |-> "constructor", args |-> <<>>, hit |-> FALSE, at |-> StartNow,
                 threw |-> FALSE, value |-> Null, error |-> ""]
    /\ useState

----------------------------------------------------------------------------
\* The calls the model makes

Directions == {"asc", "desc"}

\* the eight columns of the table, and a property no User has
SortFields == {"id", "firstName", "lastName", "fullName", "email", "city",
               "registeredDate", "daysSinceRegistered", "nickname"}

\* records a caller constructs itself: no city; one date written with a zone
\* offset (2020-01-02T18:00:00.000+12:00 is 2020-01-02T06:00Z)
CallerUsers ==
    { User(10, Str(<<Ch.a, Ch.B>>), Str(<<Ch.b>>), Str(<<Ch.b, Ch.at, Ch.b>>), Null,
           Str(WithOffset(42, 12))),
      User(9, Str(<<Ch.A, Ch.B>>), Str(<<Ch.b>>), Str(<<Ch.B, Ch.at, Ch.b>>), Null,
           Str(toISOString(12))) }

UserPool == Range(loadUsers(StartNow)) \cup CallerUsers

\* the arrays a caller passes: up to MaxSubsetLen different records, in any order
Subsets ==
    UNION { { s \in [1..n -> UserPool] : \A i, j \in 1..n : i # j => s[i] # s[j] }
            : n \in 0..MaxSubsetLen }

SortSubset == \E field \in SortFields, direction \in Directions, s \in Subsets :
                 sortUsers(field, direction, Arr(s))

\* sortUsers as a function of its arguments and the clock: a call on an array
\* of the caller changes nothing but the result, so one call per behaviour,
\* made at any time, reaches every result
NextSort == (result.op = "constructor" /\ SortSubset) \/ Tick

SpecSort == Init /\ [][NextSort]_vars


----------------------------------------------------------------------------
\* The service in use: calls in any order while the clock advances

\* the fields full-collection sorts ask for
CachedFields == {"city", "daysSinceRegistered"}

Reverse(s) == [i \in DOMAIN s |-> s[Len(s) + 1 - i]]

\* arrays a caller passes in: an empty one, the collection array itself, and
\* one as long as the collection in another order
GivenArrays == {<<>>, users, Reverse(users)}

\* queries: missing, empty, one term, two terms
GivenQueries == {Null, Str(<<>>), Str(<<Ch.a>>), Str(<<Ch.b, Ch.sp, Ch.A>>)}

ExportFormats == {"csv", "json", "xml"}

SortFull == \E field \in CachedFields, direction \in Directions :
               sortUsers(field, direction, Null)

SortGiven == \E field \in CachedFields, direction \in Directions, s \in GivenArrays :
                sortUsers(field, direction, Arr(s))

Search == \E query \in GivenQueries : searchUsers(query, DefaultSearchFields)

\* callbacks: none passes, the even ids pass, all pass
Filter == \E filterFn \in {{}, {i \in 1..UserCount : i % 2 = 0}, 1..UserCount} :
             filterUsers(filterFn)

Export == \E format \in ExportFormats, arr \in {Null, Arr(<<>>)} :
             exportUsers(format, arr)

Next ==
    \/ SortFull
    \/ SortGiven
    \/ Search
    \/ Filter
    \/ Export
    \/ getUserStats
    \/ getUsers
    \/ clearCache
    \/ Tick

Spec == Init /\ [][Next]_vars


----------------------------------------------------------------------------
\* The sort cache under more distinct keys than it holds. Full-collection
\* sorts ask for new keys in a fixed round (every field ascending, then
\* descending), or again for a key the cache holds; the round has more keys
\* than the cache has room, so a key comes round again after it was dropped.

CacheFieldOrder == <<"id", "firstName", "lastName", "fullName", "email", "city",
                     "registeredDate", "daysSinceRegistered", "nickname", "age",
                     "phone", "country", "zip">>

NumKeys == 2 * Len(CacheFieldOrder)

KeyField(i) == CacheFieldOrder[((i - 1) \div 2) + 1]

KeyDirection(i) == IF i % 2 = 1 THEN "asc" ELSE "desc"

SortNewKey ==
    /\ Len(insertLog) < MaxInserts
    /\ LET i == (Len(insertLog) % NumKeys) + 1
       IN  sortUsers(KeyField(i), KeyDirection(i), Null)

SortCachedKey ==
    \E i \in 1..NumKeys :
        /\ MapHas(sortCache, CacheKey(KeyField(i), KeyDirection(i), Len(users)))
        /\ sortUsers(KeyField(i), KeyDirection(i), Null)

NextCache == SortNewKey \/ SortCachedKey \/ clearCache

SpecCache == Init /\ [][NextCache]_vars

----------------------------------------------------------------------------
\* searchUsers as a function of its arguments and the clock

QueryAlphabet == {Ch.a, Ch.A, Ch.b, Ch.sp, Ch.tab, Ch.zero}

\* a missing query, and every string over the alphabet up to MaxQueryLen
Queries == {Null} \cup {Str(q) : q \in UNION {[1..n -> QueryAlphabet] : n \in 0..MaxQueryLen}}

SearchFieldSets == {DefaultSearchFields, {"city"}, {"id", "email"}, {"daysSinceRegistered"}}

SearchAny == \E query \in Queries, fields \in SearchFieldSets : searchUsers(query, fields)

\* a search changes nothing but the result: one call per behaviour, at any time
NextSearch == (result.op = "constructor" /\ SearchAny) \/ Tick

SpecSearch == Init /\ [][NextSearch]_vars


----------------------------------------------------------------------------
\* exportUsers as a function of its arguments and the clock

\* the city Smith, "Lake" City
LakeCity == <<83, 109, 105, 116, 104, Ch.comma, Ch.sp, Ch.quote, 76, 97, 107, 101,
              Ch.quote, Ch.sp, 67, 105, 116, 121>>

\* records a caller constructs itself: a city with a comma and quotes; a first
\* name ending in a backslash, no last name and a city of two lines; no city
ExportCallerUsers ==
    { User(11, Str(<<Ch.A, Ch.b>>), Str(<<Ch.b>>), Str(<<Ch.a, Ch.at, Ch.b>>),
           Str(LakeCity), Str(toISOString(24))),
      User(12, Str(<<Ch.a, JsonCh.backslash>>), Null, Str(<<Ch.b, Ch.at, Ch.b>>),
           Str(<<Ch.a, Ch.nl, Ch.b>>), Str(WithOffset(42, 12))),
      User(9, Str(<<Ch.A, Ch.B>>), Str(<<Ch.b>>), Str(<<Ch.B, Ch.at, Ch.b>>), Null,
           Str(toISOString(12))) }

ExportPool == Range(loadUsers(StartNow)) \cup ExportCallerUsers

\* the arrays a caller passes: up to MaxExportLen different records, in any order
ExportSubsets ==
    UNION { { s \in [1..n -> ExportPool] : \A i, j \in 1..n : i # j => s[i] # s[j] }
            : n \in 0..MaxExportLen }

ExportAny == \E format \in ExportFormats, arr \in {Null} \cup {Arr(s) : s \in ExportSubsets} :
                exportUsers(format, arr)

\* an export changes nothing but the result: one call per behaviour, at any time
NextExport == (result.op = "constructor" /\ ExportAny) \/ Tick

SpecExport == Init /\ [][NextExport]_vars

----------------------------------------------------------------------------
\* getUserStats over collections with more cities than topCities keeps

\* the service constructed over a collection of 1 to StatsUserCount records
InitStats ==
    /\ now = StartNow
    /\ \E count \in 1..StatsUserCount : users = generateFakeUsers(count, StartNow)
    /\ sortCache = <<>>
    /\ insertLog = <<>>
    /\ result = [op |-> "constructor", args |-> <<>>, hit |-> FALSE, at |-> StartNow,
                 threw |-> FALSE, value |-> Null, error |-> ""]
    /\ useState

NextStats == getUserStats \/ Tick

SpecStats == InitStats /\ [][NextStats]_vars

----------------------------------------------------------------------------
\* generateFakeUsers called on its own, at any time

\* a call of the exported generateFakeUsers
callGenerateFakeUsers(count) ==
    /\ result' = Returned("generateFakeUsers", [count |-> count], FALSE,
                          generateFakeUsers(count, now))
    /\ UNCHANGED <<users, sortCache, now, insertLog, tableVars>>

GenCounts == (-MaxGenCount)..MaxGenCount

Generate == \E count \in GenCounts : callGenerateFakeUsers(count)

NextGen == Generate \/ Tick

SpecGen == Init /\ [][NextGen]_vars

----------------------------------------------------------------------------
\* UserTable: what a render derives, the handlers, and their timeouts

\* the delays of the two simulated asynchronous operations, in milliseconds
SortDelay == 150
LoadMoreDelay == 300

\* filteredUsers: all users for a term that trims to nothing, else
\* dataService.searchUsers(searchTerm)
filteredUsersOf(term) ==
    IF trim(term) = <<>> THEN users
    ELSE SearchOutcome(Str(term), DefaultSearchFields, users, now).value

\* sortedUsers: dataService.sortUsers(key, direction, filteredUsers). An array
\* is passed, so the call sorts that array and leaves the sort cache alone
sortedUsersOf(config, term) ==
    LET usersToSort == Arr(filteredUsersOf(term))
    IN  sortLong(IF Truthy(usersToSort) THEN usersToSort.v ELSE users,
                 config.key, config.direction, now)

filteredUsers == filteredUsersOf(searchTerm)

sortedUsers == sortedUsersOf(sortConfig, searchTerm)

\* sortedUsers.slice(0, visibleRows)
visibleUsers == SubSeq(sortedUsers, 1, Min(visibleRows, Len(sortedUsers)))

\* a pending setTimeout: the handler it resumes, its delay, and what the
\* handler's closure holds (the key of handleSort, the sortedUsers of the
\* render loadMoreRows was created in)
Timer(kind, delay, key, rows) ==
    [kind |-> kind, delay |-> delay, key |-> key, sortedUsers |-> rows]

\* timeouts run in the order they fall due: the i-th can run next unless one
\* set before it has a delay that is not longer
CanFire(i) == \A j \in 1..(i - 1) : timers[j].delay > timers[i].delay

Remove(s, i) == SubSeq(s, 1, i - 1) \o SubSeq(s, i + 1, Len(s))

\* the updater handleSort passes to setSortConfig
nextSortConfig(prevConfig, key) ==
    [key |-> key,
     direction |-> IF prevConfig.key = key /\ prevConfig.direction = "asc"
                   THEN "desc" ELSE "asc"]

\* handleSort up to its await: a click or a key press on a column header
handleSort(key) ==
    /\ isSorting' = TRUE
    /\ timers' = Append(timers, Timer("sort", SortDelay, key, <<>>))
    /\ UNCHANGED <<sortConfig, visibleRows, isLoading, searchTerm, lastInput, lastSort>>
    /\ UNCHANGED <<users, sortCache, now, result, insertLog>>

\* handleSort after its await
handleSortResumed(i) ==
    /\ timers[i].kind = "sort"
    /\ CanFire(i)
    /\ sortConfig' = nextSortConfig(sortConfig, timers[i].key)
    /\ isSorting' = FALSE
    /\ timers' = Remove(timers, i)
    /\ lastSort' = [prevConfig |-> sortConfig, key |-> timers[i].key]
    /\ UNCHANGED <<visibleRows, isLoading, searchTerm, lastInput>>
    /\ UNCHANGED <<users, sortCache, now, result, insertLog>>

\* handleSearchChange: the search input changed to term
handleSearchChange(term) ==
    /\ term # searchTerm
    /\ searchTerm' = term
    /\ visibleRows' = PageSize
    /\ lastInput' = "search"
    /\ UNCHANGED <<sortConfig, isLoading, isSorting, timers, lastSort>>
    /\ UNCHANGED <<users, sortCache, now, result, insertLog>>

\* loadMoreRows up to its await: the button is rendered while rows are left
\* and disabled while isLoading
loadMoreRows ==
    /\ visibleRows < Len(sortedUsers)
    /\ ~isLoading
    /\ isLoading' = TRUE
    /\ timers' = Append(timers, Timer("loadMore", LoadMoreDelay, "", sortedUsers))
    /\ lastInput' = "loadMore"
    /\ UNCHANGED <<sortConfig, visibleRows, isSorting, searchTerm, lastSort>>
    /\ UNCHANGED <<users, sortCache, now, result, insertLog>>

\* prev => Math.min(prev + 50, sortedUsers.length), sortedUsers that of the closure
visibleRowsAfterLoad(prev, rows) == Min(prev + PageSize, Len(rows))

\* loadMoreRows after its await
loadMoreRowsResumed(i) ==
    /\ timers[i].kind = "loadMore"
    /\ CanFire(i)
    /\ visibleRows' = visibleRowsAfterLoad(visibleRows, timers[i].sortedUsers)
    /\ isLoading' = FALSE
    /\ timers' = Remove(timers, i)
    /\ UNCHANGED <<sortConfig, isSorting, searchTerm, lastInput, lastSort>>
    /\ UNCHANGED <<users, sortCache, now, result, insertLog>>

\* the component mounted over a service of TableUserCount records
InitTable ==
    /\ now = StartNow
    /\ users = generateFakeUsers(TableUserCount, StartNow)
    /\ sortCache = <<>>
    /\ insertLog = <<>>
    /\ result = [op |-> "constructor", args |-> <<>>, hit |-> FALSE, at |-> StartNow,
                 threw |-> FALSE, value |-> Null, error |-> ""]
    /\ useState

\* the columns whose headers are clicked
SortKeys == {"id", "firstName"}

\* the texts typed into the search input: none, one that 12 of 60 records
\* match, one that all match
SearchInputs == { <<>>, <<Ch.a, Ch.a>>, <<Ch.b>> }

PendingSorts == Len(SelectSeq(timers, LAMBDA tm : tm.kind = "sort"))

ClickHeader == \E key \in SortKeys : PendingSorts < MaxPendingSorts /\ handleSort(key)

SortTimeout == \E i \in DOMAIN timers : handleSortResumed(i)

ChangeSearch == \E term \in SearchInputs : handleSearchChange(term)

LoadMoreTimeout == \E i \in DOMAIN timers : loadMoreRowsResumed(i)

NextTable == ClickHeader \/ SortTimeout \/ ChangeSearch \/ loadMoreRows \/ LoadMoreTimeout

SpecTable == InitTable /\ [][NextTable]_vars

----------------------------------------------------------------------------
\* Properties

\* the last n elements of s
LastN(s, n) == SubSeq(s, Len(s) - n + 1, Len(s))

\* C1: after any full-collection sorts and clearCache calls the sort cache
\* holds at most 20 entries, and they are the keys inserted last, in the order
\* they were inserted: the entry dropped for a 21st key is the one inserted
\* earliest, whatever was read in between, and after 25 insertions of distinct
\* keys the cache holds exactly the 20 inserted last.
C1_CacheHoldsNewestTwenty ==
    /\ Len(sortCache) <= 20
    /\ Len(sortCache) = Min(20, Len(insertLog))
    /\ MapKeys(sortCache) = LastN(insertLog, Len(sortCache))
    /\ (Len(insertLog) = 25 /\ Cardinality(Range(insertLog)) = 25)
          => MapKeys(sortCache) = SubSeq(insertLog, 6, 25)

\* 25 distinct keys were inserted, the oldest entry left was read again
\* (a hit), and the cache is full
C1_Witness ==
    /\ Len(insertLog) = 25
    /\ Cardinality(Range(insertLog)) = 25
    /\ Len(sortCache) = 20
    /\ result.op = "sortUsers" /\ result.hit
    /\ CacheKey(result.args.field, result.args.direction, Len(users)) = sortCache[1].key


\* the call result stands for was a sortUsers call
IsSort == result.op = "sortUsers"

\* the array that call sorted: the one passed in, or the stored collection
SortInput == IF result.args.usersToSort.t = "object" THEN result.args.usersToSort.v ELSE users

\* the sort key of a record in that call
SortKey(u) == getSortValue(u, result.args.field, result.at)

\* C2: a full-collection sortUsers call answered from the cache returns the
\* ordering that sorting the collection at that moment returns, for every
\* field, at any time.
C2_CacheHitEqualsRecomputation ==
    (IsSort /\ result.hit)
        => result.value = sort(users, result.args.field, result.args.direction, result.at)

\* C3: a sortUsers call that is passed an array (an empty one and the
\* collection array itself included) sorts that array anew and leaves the
\* sort cache as it was. (Every step but a tick of the clock is a call, and
\* result' names it.)
C3_GivenArrayBypassesCache ==
    [][(result'.op = "sortUsers" /\ now' = now
            /\ result'.args.usersToSort.t = "object")
        => /\ sortCache' = sortCache
           /\ ~result'.hit
           /\ result'.value = sort(result'.args.usersToSort.v, result'.args.field,
                                   result'.args.direction, now)]_vars

\* an array was sorted while the cache held, under the key that array's
\* length gives, an ordering other than the one returned
C3_Witness ==
    /\ IsSort
    /\ result.args.usersToSort.t = "object"
    /\ LET k == CacheKey(result.args.field, result.args.direction, Len(SortInput))
       IN  MapHas(sortCache, k) /\ MapGet(sortCache, k) # result.value

\* C4: whatever was called, the stored collection is the generated one, in
\* id-ascending order.
C4_CollectionNeverChanges ==
    /\ users = generateFakeUsers(UserCount, StartNow)
    /\ \A i \in DOMAIN users : users[i].id.v = i

\* a full-collection sort returned the records in another order than the
\* collection's and the cache kept it
C4_Witness ==
    /\ IsSort
    /\ result.args.usersToSort.t = "null"
    /\ result.value # generateFakeUsers(UserCount, StartNow)
    /\ sortCache # <<>>

\* C5: the output of sortUsers is a permutation of its input, and sorted on
\* id or daysSinceRegistered its adjacent values never decrease in an
\* ascending sort and never increase in a descending one.
C5_OutputSortedPermutation ==
    IsSort =>
        LET out == result.value
        IN  /\ Len(out) = Len(SortInput)
            /\ \A u \in Range(SortInput) \cup Range(out) : Count(out, u) = Count(SortInput, u)
            /\ result.args.field \in {"id", "daysSinceRegistered"} =>
                  \A i \in 1..(Len(out) - 1) :
                      IF result.args.direction = "asc"
                      THEN SortKey(out[i]).v <= SortKey(out[i + 1]).v
                      ELSE SortKey(out[i]).v >= SortKey(out[i + 1]).v

\* two sort keys compare equal
KeysEqual(x, y, field) ==
    \/ x.t = "null" /\ y.t = "null"
    \/ x.t = "number" /\ y.t = "number" /\ x.v = y.v
    \/ x.t = "string" /\ y.t = "string" /\ field = "registeredDate"
          /\ ParseDate(x.v) = ParseDate(y.v)
    \/ x.t = "string" /\ y.t = "string" /\ field # "registeredDate"
          /\ toLowerCase(x.v) = toLowerCase(y.v)

\* a comes before b in s
Before(s, a, b) == \E p, q \in DOMAIN s : p < q /\ s[p] = a /\ s[q] = b

\* C6: sortUsers is stable: input records whose keys compare equal come out
\* in their input order, ascending and descending.
C6_Stable ==
    IsSort =>
        \A i, j \in DOMAIN SortInput :
            (i < j /\ KeysEqual(SortKey(SortInput[i]), SortKey(SortInput[j]), result.args.field))
                => Before(result.value, SortInput[i], SortInput[j])

\* C7: records whose sort value is null come after all others in an
\* ascending sort and before all others in a descending sort.
C7_NullsLastAscFirstDesc ==
    IsSort =>
        \A p, q \in DOMAIN result.value :
            (SortKey(result.value[p]).t = "null" /\ SortKey(result.value[q]).t # "null")
                => IF result.args.direction = "asc" THEN q < p ELSE p < q

\* a descending sort by city of three records put the one without a city first
C7_Witness ==
    /\ IsSort
    /\ result.args.field = "city"
    /\ result.args.direction = "desc"
    /\ Len(result.value) = 3
    /\ result.value[1].city.t = "null"
    /\ result.value[2].city.t # "null"
    /\ SortInput[1].city.t # "null"

\* x is not greater than y, compared the way the field asks for
KeyNotGreater(x, y, field) ==
    CASE x.t = "number" /\ y.t = "number" -> x.v <= y.v
      [] x.t = "string" /\ y.t = "string" /\ field = "registeredDate" ->
            ParseDate(x.v) <= ParseDate(y.v)
      [] x.t = "string" /\ y.t = "string" /\ field # "registeredDate" ->
            ~LessText(toLowerCase(y.v), toLowerCase(x.v))
      [] OTHER -> TRUE

\* C8: a sort that sortUsers computes orders numbers by value, registeredDate
\* by the time it denotes and any other text without regard to case; texts
\* that differ only in case count as equal and keep their input order.
C8_ComparesByKind ==
    (IsSort /\ ~result.hit) =>
        \A p, q \in DOMAIN result.value :
            p < q =>
                LET x == SortKey(result.value[p])
                    y == SortKey(result.value[q])
                IN  /\ IF result.args.direction = "asc"
                       THEN KeyNotGreater(x, y, result.args.field)
                       ELSE KeyNotGreater(y, x, result.args.field)
                    /\ (x.t = "string" /\ y.t = "string" /\ x.v # y.v
                            /\ result.args.field # "registeredDate"
                            /\ toLowerCase(x.v) = toLowerCase(y.v))
                          => Before(SortInput, result.value[p], result.value[q])

\* an ascending sort by city returned two neighbours whose cities differ only
\* in case, the one that reads greater as written first
C8_Witness ==
    /\ IsSort
    /\ ~result.hit
    /\ result.args.direction = "asc"
    /\ result.args.field = "city"
    /\ \E p \in 1..(Len(result.value) - 1) :
          /\ result.value[p].city.t = "string"
          /\ result.value[p + 1].city.t = "string"
          /\ LessText(result.value[p + 1].city.v, result.value[p].city.v)
          /\ toLowerCase(result.value[p].city.v) = toLowerCase(result.value[p + 1].city.v)


\* the terms of a query as the words between whitespace: the non-empty runs
\* of characters that are not whitespace
RECURSIVE Words(_)
Words(q) ==
    IF q = <<>> THEN <<>>
    ELSE IF Head(q) \in WhiteSpace THEN Words(Tail(q))
    ELSE LET n == IF \A i \in DOMAIN q : q[i] \notin WhiteSpace THEN Len(q)
                  ELSE (CHOOSE i \in DOMAIN q :
                            q[i] \in WhiteSpace /\ \A j \in 1..(i - 1) : q[j] \notin WhiteSpace) - 1
         IN  <<SubSeq(q, 1, n)>> \o Words(SubSeq(q, n + 1, Len(q)))

\* term is a case-insensitive substring of the text of the record's field
FieldContains(user, field, term, t) ==
    LET value == getSortValue(user, field, t)
    IN  value.t # "null" /\ includes(toLowerCase(toString(value)), toLowerCase(term))

\* C9: searchUsers returns exactly the records of the collection in which
\* every term of the query is a case-insensitive substring of at least one of
\* the searched fields, in collection order. Stated for the queries whose
\* terms are set apart by spaces, so that how other whitespace splits a query
\* plays no part.
C9_SearchReturnsExactMatches ==
    (/\ result.op = "searchUsers"
     /\ result.args.query.t = "string"
     /\ \A i \in DOMAIN result.args.query.v :
            result.args.query.v[i] \in WhiteSpace => result.args.query.v[i] = Ch.sp)
        => /\ ~result.threw
           /\ result.value =
                 SelectSeq(users, LAMBDA u :
                     \A term \in Range(Words(result.args.query.v)) :
                         \E field \in result.args.fields :
                             FieldContains(u, field, term, result.at))

\* C10: searchUsers with a missing, empty or whitespace-only query returns
\* the whole collection in its order and does not throw.
C10_BlankQueryReturnsAll ==
    (/\ result.op = "searchUsers"
     /\ \/ result.args.query.t = "null"
        \/ /\ result.args.query.t = "string"
           /\ \A i \in DOMAIN result.args.query.v : result.args.query.v[i] \in WhiteSpace)
        => (~result.threw /\ result.value = users)

\* a query of a space and a tab returned all records
C10_Witness ==
    /\ result.op = "searchUsers"
    /\ result.args.query = Str(<<Ch.sp, Ch.tab>>)
    /\ ~result.threw
    /\ Len(result.value) = UserCount

\* C11: searchUsers splits the lower-cased, trimmed query into terms on any
\* whitespace (one or several spaces, a tab, a newline) and matches each term
\* on its own: it returns the records in which every such term is found in
\* some searched field.
C11_SplitsOnAnyWhitespace ==
    (/\ result.op = "searchUsers"
     /\ result.args.query.t = "string"
     /\ Words(result.args.query.v) # <<>>)
        => result.value =
              SelectSeq(users, LAMBDA u :
                  UserMatches(u, Words(trim(toLowerCase(result.args.query.v))),
                              result.args.fields, result.at))

----------------------------------------------------------------------------
\* Reading an export back

\* the call result stands for was an exportUsers call for the given format
IsExport(format) == result.op = "exportUsers" /\ result.args.format = format

\* the array that call exported: the one passed in, or the stored collection
ExportInput ==
    IF result.args.usersToExport.t = "object" THEN result.args.usersToExport.v ELSE users

\* the plain object of the i-th exported record at the time of the call
ExportedRow(i) == toPlainObject(ExportInput[i], result.at)

JsonWhite == {Ch.sp, Ch.nl, Ch.cr, Ch.tab}

JsonDigits == 48..57

JsonError == [t |-> "error", v |-> 0]

RECURSIVE SkipWhite(_, _)
SkipWhite(text, i) ==
    IF i <= Len(text) /\ text[i] \in JsonWhite THEN SkipWhite(text, i + 1) ELSE i

\* the characters of a JSON string from position i (behind the opening
\* quote) to its closing quote, escapes resolved
RECURSIVE ReadString(_, _)
ReadString(text, i) ==
    IF text[i] = Ch.quote THEN [v |-> <<>>, next |-> i + 1]
    ELSE IF text[i] = JsonCh.backslash
    THEN LET c    == text[i + 1]
             ch   == CASE c = 110 -> Ch.nl [] c = 114 -> Ch.cr [] c = 116 -> Ch.tab
                       [] OTHER -> c
             rest == ReadString(text, i + 2)
         IN  [v |-> <<ch>> \o rest.v, next |-> rest.next]
    ELSE LET rest == ReadString(text, i + 1)
         IN  [v |-> <<text[i]>> \o rest.v, next |-> rest.next]

RECURSIVE ReadNumber(_, _, _)
ReadNumber(text, i, acc) ==
    IF i <= Len(text) /\ text[i] \in JsonDigits
    THEN ReadNumber(text, i + 1, acc * 10 + (text[i] - Ch.zero))
    ELSE [v |-> acc, next |-> i]

RECURSIVE ReadValue(_, _)
RECURSIVE ReadElements(_, _)
RECURSIVE ReadMembers(_, _)

\* the JSON value that starts at position i0, and the position behind it
ReadValue(text, i0) ==
    LET i == SkipWhite(text, i0)
    IN  CASE i > Len(text) -> [v |-> JsonError, next |-> i]
          [] i <= Len(text) /\ text[i] = Ch.quote ->
                LET r == ReadString(text, i + 1) IN [v |-> Str(r.v), next |-> r.next]
          [] i <= Len(text) /\ text[i] \in JsonDigits ->
                LET r == ReadNumber(text, i, 0) IN [v |-> Num(r.v), next |-> r.next]
          [] i <= Len(text) /\ SubSeq(text, i, i + 3) = <<110, 117, 108, 108>> ->
                [v |-> Null, next |-> i + 4]
          [] i <= Len(text) /\ text[i] = JsonCh.lbracket ->
                LET j == SkipWhite(text, i + 1)
                IN  IF text[j] = JsonCh.rbracket
                    THEN [v |-> [t |-> "array", v |-> <<>>], next |-> j + 1]
                    ELSE LET r == ReadElements(text, j)
                         IN  [v |-> [t |-> IF r.ok THEN "array" ELSE "error", v |-> r.v],
                              next |-> r.next]
          [] i <= Len(text) /\ text[i] = JsonCh.lbrace ->
                LET r == ReadMembers(text, i + 1)
                IN  [v |-> [t |-> IF r.ok THEN "object" ELSE "error", v |-> r.v],
                     next |-> r.next]
          [] OTHER -> [v |-> JsonError, next |-> i]

\* the elements of an array from position i to its closing bracket
ReadElements(text, i) ==
    LET first == ReadValue(text, i)
        j     == SkipWhite(text, first.next)
    IN  IF first.v.t = "error" \/ j > Len(text)
        THEN [ok |-> FALSE, v |-> <<>>, next |-> j]
        ELSE IF text[j] = Ch.comma
        THEN LET rest == ReadElements(text, j + 1)
             IN  [ok |-> rest.ok, v |-> <<first.v>> \o rest.v, next |-> rest.next]
        ELSE [ok |-> text[j] = JsonCh.rbracket, v |-> <<first.v>>, next |-> j + 1]

\* the members of an object from position i to its closing brace
ReadMembers(text, i) ==
    LET k == SkipWhite(text, i)
    IN  IF k > Len(text) \/ text[k] # Ch.quote THEN [ok |-> FALSE, v |-> <<>>, next |-> k]
        ELSE
        LET key == ReadString(text, k + 1)
            c   == SkipWhite(text, key.next)
            val == ReadValue(text, c + 1)
            j   == SkipWhite(text, val.next)
            one == <<[key |-> key.v, value |-> val.v]>>
        IN  IF text[c] # Ch.colon \/ val.v.t = "error" \/ j > Len(text)
            THEN [ok |-> FALSE, v |-> <<>>, next |-> j]
            ELSE IF text[j] = Ch.comma
            THEN LET rest == ReadMembers(text, j + 1)
                 IN  [ok |-> rest.ok, v |-> one \o rest.v, next |-> rest.next]
            ELSE [ok |-> text[j] = JsonCh.rbrace, v |-> one, next |-> j + 1]

\* JSON.parse: the value the whole text denotes, or an error
JsonParse(text) ==
    LET r == ReadValue(text, 1)
    IN  IF SkipWhite(text, r.next) = Len(text) + 1 THEN r.v ELSE JsonError

\* the keys of a parsed object, in the order of the text
MemberKeys(obj) == [i \in DOMAIN obj.v |-> obj.v[i].key]

HasMember(obj, key) == obj.t = "object" /\ \E i \in DOMAIN obj.v : obj.v[i].key = key

\* obj[key]
Member(obj, key) == obj.v[CHOOSE i \in DOMAIN obj.v : obj.v[i].key = key].value

\* where the CSV cell that starts at position i ends: at the next comma or
\* line end outside double quotes
RECURSIVE CellEnd(_, _, _)
CellEnd(text, i, quoted) ==
    IF i > Len(text) THEN i
    ELSE IF text[i] = Ch.quote THEN CellEnd(text, i + 1, ~quoted)
    ELSE IF ~quoted /\ text[i] \in {Ch.comma, Ch.nl} THEN i
    ELSE CellEnd(text, i + 1, quoted)

\* the rows of a CSV text from position i, each the sequence of its cells as
\* written; row holds the cells of the current row read so far
RECURSIVE CsvRows(_, _, _)
CsvRows(text, i, row) ==
    LET e     == CellEnd(text, i, FALSE)
        cells == Append(row, SubSeq(text, i, e - 1))
    IN  IF e > Len(text) THEN <<cells>>
        ELSE IF text[e] = Ch.comma THEN CsvRows(text, e + 1, cells)
        ELSE <<cells>> \o CsvRows(text, e + 1, <<>>)

ReadCsv(text) == CsvRows(text, 1, <<>>)

\* every "" of s as one "
RECURSIVE Undouble(_)
Undouble(s) ==
    IF s = <<>> THEN <<>>
    ELSE IF Len(s) >= 2 /\ s[1] = Ch.quote /\ s[2] = Ch.quote
    THEN <<Ch.quote>> \o Undouble(SubSeq(s, 3, Len(s)))
    ELSE <<Head(s)>> \o Undouble(Tail(s))

\* the value a CSV cell denotes
CellValue(cell) ==
    IF Len(cell) >= 2 /\ cell[1] = Ch.quote /\ cell[Len(cell)] = Ch.quote
    THEN Undouble(SubSeq(cell, 2, Len(cell) - 1))
    ELSE cell

\* the text of a field value: nothing for a missing one
ValueText(val) == IF val.t = "null" THEN <<>> ELSE toString(val)

\* a CSV text has a header and one row of eight cells per exported record
CsvShape(rows) ==
    /\ Len(rows) = Len(ExportInput) + 1
    /\ \A r \in DOMAIN rows : Len(rows[r]) = Len(PlainKeys)

C13_EmptySubsetExports ==
    (result.op = "exportUsers" /\ result.args.usersToExport = Arr(<<>>))
        => /\ result.args.format \in {"csv", "json"} => ~result.threw
           /\ result.args.format = "csv" => result.value = NoDataText
           /\ result.args.format = "json" =>
                 LET doc == JsonParse(result.value)
                 IN  /\ HasMember(doc, DocKeyText.data)
                     /\ Member(doc, DocKeyText.data) = [t |-> "array", v |-> <<>>]
                     /\ HasMember(doc, DocKeyText.totalRecords)
                     /\ Member(doc, DocKeyText.totalRecords) = Num(0)

\* the empty array was exported as JSON from a collection of three records
C13_Witness ==
    /\ IsExport("json")
    /\ result.args.usersToExport = Arr(<<>>)
    /\ ~result.threw
    /\ Len(users) = UserCount
    /\ JsonParse(result.value).t = "object"

\* the characters that make the CSV export quote a value
CsvSpecial == {Ch.comma, Ch.quote, Ch.nl}

\* how often c occurs in s
Occurrences(s, c) == Cardinality({i \in DOMAIN s : s[i] = c})

\* the cell "Smith, ""Lake"" City"
LakeCityCell == <<Ch.quote, 83, 109, 105, 116, 104, Ch.comma, Ch.sp, Ch.quote, Ch.quote,
                  76, 97, 107, 101, Ch.quote, Ch.quote, Ch.sp, 67, 105, 116, 121, Ch.quote>>

\* C14: in a CSV export every value that contains a comma, a double quote or
\* a newline is written between double quotes with each of its double quotes
\* doubled, every other value is written without quotes, and the city
\* Smith, "Lake" City is written as "Smith, ""Lake"" City".
C14_CsvQuoting ==
    (IsExport("csv") /\ ExportInput # <<>>) =>
        LET rows == ReadCsv(result.value)
        IN  /\ CsvShape(rows)
            /\ \A r \in DOMAIN ExportInput : \A k \in DOMAIN PlainKeys :
                  LET val  == ExportedRow(r)[PlainKeys[k]]
                      text == ValueText(val)
                      cell == rows[r + 1][k]
                  IN  /\ IF Range(text) \cap CsvSpecial # {}
                         THEN /\ Len(cell) >= 2
                              /\ cell[1] = Ch.quote
                              /\ cell[Len(cell)] = Ch.quote
                              /\ Occurrences(cell, Ch.quote) = 2 * Occurrences(text, Ch.quote) + 2
                              /\ CellValue(cell) = text
                         ELSE /\ Occurrences(cell, Ch.quote) = 0
                              /\ val.t = "string" => cell = text
                      /\ text = LakeCity => cell = LakeCityCell

\* a CSV export wrote the city Smith, "Lake" City and a city of two lines
C14_Witness ==
    /\ IsExport("csv")
    /\ ~result.threw
    /\ \E r \in DOMAIN ExportInput : ExportInput[r].city = Str(LakeCity)
    /\ \E r \in DOMAIN ExportInput : ExportInput[r].city = Str(<<Ch.a, Ch.nl, Ch.b>>)

\* C15: a CSV export of a non-empty array has the header
\* id,firstName,lastName,fullName,email,city,registeredDate,daysSinceRegistered
\* as its first line, then one row per exported record in input order, and
\* each cell holds the value of that field for that record, numbers (a 0
\* included) as their digits; only a missing field is an empty cell.
C15_CsvCellsHoldValues ==
    (IsExport("csv") /\ ExportInput # <<>>) =>
        LET rows == ReadCsv(result.value)
        IN  /\ CsvShape(rows)
            /\ rows[1] = [k \in DOMAIN PlainKeys |-> KeyText[PlainKeys[k]]]
            /\ \A r \in DOMAIN ExportInput : \A k \in DOMAIN PlainKeys :
                  CellValue(rows[r + 1][k]) = ValueText(ExportedRow(r)[PlainKeys[k]])

\* C16: the text of a JSON export parses to an object whose totalRecords is
\* the number of exported records and whose data array has one object per
\* exported record, in input order, with the record's id, fullName and
\* daysSinceRegistered as computed at the time of the export.
C16_JsonRoundTrip ==
    IsExport("json") =>
        LET doc == JsonParse(result.value)
        IN  /\ ~result.threw
            /\ HasMember(doc, DocKeyText.totalRecords)
            /\ Member(doc, DocKeyText.totalRecords) = Num(Len(ExportInput))
            /\ HasMember(doc, DocKeyText.data)
            /\ Member(doc, DocKeyText.data).t = "array"
            /\ Len(Member(doc, DocKeyText.data).v) = Len(ExportInput)
            /\ \A r \in DOMAIN ExportInput :
                  LET obj == Member(doc, DocKeyText.data).v[r]
                  IN  /\ HasMember(obj, KeyText.id)
                      /\ Member(obj, KeyText.id) = ExportInput[r].id
                      /\ HasMember(obj, KeyText.fullName)
                      /\ Member(obj, KeyText.fullName) = fullName(ExportInput[r])
                      /\ HasMember(obj, KeyText.daysSinceRegistered)
                      /\ Member(obj, KeyText.daysSinceRegistered)
                            = daysSinceRegistered(ExportInput[r], result.at)

\* two records were exported as JSON, one of them with a backslash in its
\* full name
C16_Witness ==
    /\ IsExport("json")
    /\ ~result.threw
    /\ Len(ExportInput) = 2
    /\ \E r \in DOMAIN ExportInput : JsonCh.backslash \in Range(fullName(ExportInput[r]).v)
    /\ Len(Member(JsonParse(result.value), DocKeyText.data).v) = 2

\* the sum of the values of a function
RECURSIVE SumOf(_)
SumOf(f) ==
    IF DOMAIN f = {} THEN 0
    ELSE LET x == CHOOSE y \in DOMAIN f : TRUE
         IN  f[x] + SumOf([y \in DOMAIN f \ {x} |-> f[y]])

\* the cities of the collection
Cities == {users[i].city : i \in DOMAIN users}

\* how many records have the city
CityCount(city) == Cardinality({i \in DOMAIN users : users[i].city = city})

\* where the city is met first in the collection
FirstMet(city) == CHOOSE i \in DOMAIN users :
                      users[i].city = city /\ \A j \in 1..(i - 1) : users[j].city # city

\* C17: getUserStats returns the size of the collection as totalUsers, year
\* counts that sum to it, and as topCities at most 10 cities with their
\* record counts: the cities with the highest counts, by descending count,
\* cities of equal count in the order they are first met in the collection.
C17_StatsCountsAndTopCities ==
    result.op = "getUserStats" =>
        LET stats == result.value
            top   == stats.topCities
            kept  == {top[p].key : p \in DOMAIN top}
        IN  /\ stats.totalUsers = Len(users)
            /\ SumOf(stats.registrationYears) = stats.totalUsers
            /\ Len(top) = Min(10, Cardinality(Cities))
            /\ Cardinality(kept) = Len(top)
            /\ \A p \in DOMAIN top :
                  top[p].key \in Cities /\ top[p].count = CityCount(top[p].key)
            /\ \A p, q \in DOMAIN top :
                  p < q => \/ top[p].count > top[q].count
                           \/ /\ top[p].count = top[q].count
                              /\ FirstMet(top[p].key) < FirstMet(top[q].key)
            /\ \A city \in Cities \ kept : \A p \in DOMAIN top :
                  \/ top[p].count > CityCount(city)
                  \/ /\ top[p].count = CityCount(city)
                     /\ FirstMet(top[p].key) < FirstMet(city)

\* statistics of a collection with more than 10 cities: topCities starts with
\* two cities of two records each that are met last, leaves cities out, and
\* the records fall into two registration years
C17_Witness ==
    /\ result.op = "getUserStats"
    /\ Cardinality(Cities) > 10
    /\ Len(result.value.topCities) = 10
    /\ result.value.topCities[1].count = 2
    /\ result.value.topCities[2].count = 2
    /\ result.value.topCities[3].count = 1
    /\ FirstMet(result.value.topCities[2].key) > FirstMet(result.value.topCities[3].key)
    /\ Cardinality(DOMAIN result.value.registrationYears) = 2

\* the call result stands for was a call of generateFakeUsers
IsGenerate == result.op = "generateFakeUsers"

\* C18: for a count N >= 0 generateFakeUsers returns exactly N records whose
\* ids are 1, ..., N in this order; for 0 it returns the empty sequence and
\* does not throw.
C18_IdsOneToCount ==
    (IsGenerate /\ result.args.count >= 0)
        => /\ ~result.threw
           /\ Len(result.value) = result.args.count
           /\ \A i \in 1..result.args.count : result.value[i].id = Num(i)
           /\ result.args.count = 0 => result.value = <<>>

\* five records were generated, the last with id 5
C18_Witness ==
    /\ IsGenerate
    /\ result.args.count = 5
    /\ ~result.threw
    /\ Len(result.value) = 5
    /\ result.value[5].id = Num(5)

\* C19: two calls of generateFakeUsers with the same count, whenever they are
\* made, return sequences that are equal in every field (ids, names, emails,
\* cities and registeredDate).
C19_SameCountSameRecords ==
    [][(result.op = "generateFakeUsers" /\ result'.op = "generateFakeUsers"
            /\ result'.args.count = result.args.count)
        => result'.value = result.value]_vars

\* C20: a call of generateFakeUsers with a negative count throws; it does
\* not return a sequence.
C20_NegativeCountThrows ==
    (IsGenerate /\ result.args.count < 0) => result.threw

\* C21: a click on a column header takes that column's sort through three
\* states. After a click was handled on a column the table was not sorted by,
\* the rows are shown in ascending order of the column; after one on the
\* column it was sorted by in ascending order (as it is by id when mounted),
\* in descending order; and after one on the column it was sorted by in
\* descending order, the third click, in their original order, that of
\* filteredUsers.
C21_ThreeStateSortCycle ==
    LET prev == lastSort.prevConfig
        key  == lastSort.key
    IN  key # ""
          => /\ prev.key # key
                   => sortedUsers = sortLong(filteredUsers, key, "asc", now)
             /\ (prev.key = key /\ prev.direction = "asc")
                   => sortedUsers = sortLong(filteredUsers, key, "desc", now)
             /\ (prev.key = key /\ prev.direction = "desc")
                   => sortedUsers = filteredUsers

\* C22: a search change resets the pagination to the first 50 rows. Whatever
\* the search changes and load-more clicks were and however the timeouts of
\* the load-mores fell among them: when the last of these inputs handled is a
\* search change, visibleRows is 50; and visibleRows is never more than the
\* larger of 50 and the number of rows of sortedUsers.
C22_SearchResetsPagination ==
    /\ lastInput = "search" => visibleRows = PageSize
    /\ visibleRows <= (IF Len(sortedUsers) > PageSize THEN Len(sortedUsers) ELSE PageSize)

====
